---- MODULE Spec2Model ----
(***************************************************************************)
(* Approval lifecycle of backend/api/routes/approvals.py.                  *)
(*                                                                         *)
(* The approvals table is the variable db.  Every route handler is an      *)
(* operator from the table, the clock and the request to the new table and *)
(* the response, and an action that applies it; in Spec the handlers run   *)
(* one after another.  ConcSpec splits respond_to_approval at its awaits   *)
(* (select / commit / return), so that two requests on the same row can    *)
(* interleave.  Time is counted in hours.  Rows carry the attribute names  *)
(* the route module uses.                                                  *)
(***************************************************************************)
EXTENDS Integers, FiniteSets, Sequences, TLC

----------------------------------------------------------------------------
(* Bounds of the model *)

MaxRows == 2

MaxTime == 48

TickStep == 24

(* Program constants *)

DefaultExpiryHours == 24

MinSweepHours == 1

DefaultSweepHours == 24

----------------------------------------------------------------------------
Users == {"u1", "u2"}

Ids == 1..MaxRows

Procs == {"p1", "p2"}

RiskLevels == {"low", "medium", "high", "critical"}

Terminal == {"approved", "rejected", "expired"}

Reasons == {"None", "because"}

NoTime == -1

NoRow == [status |-> "absent"]

NoLocal == [id |-> 0]

SweepHours == {MinSweepHours, DefaultSweepHours}

(* the expires_at an update may carry: a time already past *)
ExpiryInputs == {0}

Descriptions == {"None", "d1"}

Payloads == {"None", "p1"}

(* What the assessor does when asked: it is missing, it raises, it answers *)
JudyBehaviours == {"missing", "raises", "review"}

(* What the bound agent does on execution: no such agent or method, it
   runs, it raises *)
ExecBehaviours == {"no_agent", "ok", "raise"}

VARIABLES now, db, execCount, pc, loc, conv, judy, calc, rec, alex

(* the approvals table and the requests in flight on it *)
approvalVars == <<now, db, execCount, pc, loc>>

(* one run of the conversation pipeline, one run of the consensus engine,
   one call of the confidence blend, one call of the recommendation table,
   the command gate of the system agent *)
agentVars == <<conv, judy, calc, rec, alex>>

vars == <<now, db, execCount, pc, loc, conv, judy, calc, rec, alex>>

----------------------------------------------------------------------------
(* request_judy_assessment: always returns a dict, also on failure *)
request_judy_assessment(b) ==
    IF b = "missing"
    THEN [verdict |-> "unavailable", confidence_score |-> 50,
          reasoning |-> "Judy agent not available"]
    ELSE IF b = "raises"
    THEN [verdict |-> "error", confidence_score |-> 0,
          reasoning |-> "Assessment failed"]
    ELSE [verdict |-> b, confidence_score |-> 80,
          reasoning |-> "assessed"]

(* The row create_approval_request inserts *)
NewApproval(u, risk, t) ==
    [user_id |-> u, risk_level |-> risk, status |-> "pending",
     description |-> "d0", payload |-> "p0",
     expires_at |-> t + DefaultExpiryHours, created_at |-> t,
     responded_at |-> NoTime, response_reason |-> "None",
     judy_verdict |-> "None", judy_confidence |-> NoTime,
     judy_reasoning |-> "None"]

(* faulty variant: medium risk assessed too *)
NeedsAssessmentBug(risk) == risk \in {"medium", "high", "critical"}

NeedsAssessment(risk) == risk \in {"high", "critical"}

WithAssessment(a, j) ==
    [a EXCEPT !.judy_verdict = j.verdict,
              !.judy_confidence = j.confidence_score,
              !.judy_reasoning = j.reasoning]

(* ApprovalResponse(...) built from a row: every column but user_id *)
ApprovalResponseOf(id, a) ==
    [id |-> id, risk_level |-> a.risk_level, status |-> a.status,
     description |-> a.description, payload |-> a.payload,
     expires_at |-> a.expires_at, created_at |-> a.created_at,
     responded_at |-> a.responded_at, response_reason |-> a.response_reason,
     judy_verdict |-> a.judy_verdict, judy_confidence |-> a.judy_confidence,
     judy_reasoning |-> a.judy_reasoning]

(* faulty variant: the row selected by id alone *)
SelectAnyOwner(d, id, u) == d[id]

(* select(Approval).where(id == approval_id, user_id == current_user.id) *)
SelectOwned(d, id, u) ==
    IF d[id] # NoRow /\ d[id].user_id = u THEN d[id] ELSE NoRow

FreeIds(d) == {i \in Ids : d[i] = NoRow}

NextId(d) == CHOOSE i \in FreeIds(d) : \A j \in FreeIds(d) : i <= j

----------------------------------------------------------------------------
(* respond_to_approval, piece by piece *)

(* faulty variant: the status check left out *)
DecideOutcomeNoStateCheck(approval, t) ==
    IF approval = NoRow THEN "NotFound"
    ELSE IF approval.expires_at < t THEN "Expired"
    ELSE "ok"

(* the three checks before the update, in the code's order *)
DecideOutcome(approval, t) ==
    IF approval = NoRow THEN "NotFound"
    ELSE IF approval.status # "pending" THEN "InvalidState"
    ELSE IF approval.expires_at < t THEN "Expired"
    ELSE "ok"

(* the status code of the HTTPException respond_to_approval raises *)
RaisedStatus(outcome) ==
    IF outcome = "NotFound" THEN 404
    ELSE IF outcome \in {"InvalidState", "Expired"} THEN 400
    ELSE 200

(* faulty variant: responded_at not recorded *)
ApplyDecisionNoTime(approval, approved, reason, t) ==
    [approval EXCEPT !.status = IF approved THEN "approved" ELSE "rejected",
                     !.response_reason = reason]

(* the three assignments on the loaded object *)
ApplyDecision(approval, approved, reason, t) ==
    [approval EXCEPT !.status = IF approved THEN "approved" ELSE "rejected",
                     !.responded_at = t,
                     !.response_reason = reason]

(* session.commit(): UPDATE approvals SET <the changed columns> WHERE id = :id *)
CommitDecision(d, id, obj) ==
    [d EXCEPT ![id] = [@ EXCEPT !.status = obj.status,
                                !.responded_at = obj.responded_at,
                                !.response_reason = obj.response_reason]]

(* `if approved:` execute_approved_action, which reaches the agent's method
   when the agent exists and has one *)
ExecInvoked(approved, ex) == approved /\ ex # "no_agent"

(* respond_to_approval run from its select to its return: the new table,
   the HTTPException raised (or none), the response, and whether and how
   the execution collaborator ran *)
respond_to_approval(d, t, u, id, approved, reason, ex) ==
    LET approval == SelectOwned(d, id, u)
        outcome == DecideOutcome(approval, t)
    IN  IF outcome # "ok"
        THEN [db |-> d, raised |-> outcome,
              status_code |-> RaisedStatus(outcome),
              resp |-> NoRow, exec |-> "none"]
        ELSE LET committed ==
                     CommitDecision(d, id, ApplyDecision(approval, approved, reason, t))
             IN  [db |-> committed, raised |-> "none", status_code |-> 200,
                  resp |-> ApprovalResponseOf(id, committed[id]),
                  exec |-> IF ExecInvoked(approved, ex) THEN ex ELSE "none"]

(* approve_request / reject_request: `except Exception` also catches the
   HTTPException of respond_to_approval and raises a 500 in its place *)
Endpoint(r) ==
    IF r.raised = "none" THEN r ELSE [r EXCEPT !.status_code = 500]

approve_request(d, t, u, id, reason, ex) ==
    Endpoint(respond_to_approval(d, t, u, id, TRUE, reason, ex))

reject_request(d, t, u, id, reason, ex) ==
    Endpoint(respond_to_approval(d, t, u, id, FALSE, reason, ex))

----------------------------------------------------------------------------
(* The other handlers *)

create_approval_request(d, t, u, risk, jb) ==
    LET id == NextId(d)
        inserted == NewApproval(u, risk, t)
        final == IF NeedsAssessment(risk)
                 THEN WithAssessment(inserted, request_judy_assessment(jb))
                 ELSE inserted
    IN  [db |-> [d EXCEPT ![id] = final], id |-> id, status_code |-> 200,
         resp |-> ApprovalResponseOf(id, final)]

get_approval(d, u, id) ==
    LET approval == SelectOwned(d, id, u)
    IN  IF approval = NoRow
        THEN [raised |-> "NotFound", status_code |-> 404, resp |-> NoRow]
        ELSE [raised |-> "none", status_code |-> 200,
              resp |-> ApprovalResponseOf(id, approval)]

(* faulty variant: an update puts the request back to pending *)
UpdatedReopens(a, desc, exp, pay) ==
    [a EXCEPT !.description = IF desc # "None" THEN desc ELSE @,
              !.expires_at = IF exp # NoTime THEN exp ELSE @,
              !.payload = IF pay # "None" THEN pay ELSE @,
              !.status = "pending"]

(* the assignments of update_approval: only the supplied fields *)
Updated(a, desc, exp, pay) ==
    [a EXCEPT !.description = IF desc # "None" THEN desc ELSE @,
              !.expires_at = IF exp # NoTime THEN exp ELSE @,
              !.payload = IF pay # "None" THEN pay ELSE @]

update_approval(d, u, id, desc, exp, pay) ==
    LET approval == SelectOwned(d, id, u)
    IN  IF approval = NoRow
        THEN [db |-> d, raised |-> "NotFound", status_code |-> 404,
              resp |-> NoRow]
        ELSE LET new == Updated(approval, desc, exp, pay)
             IN  [db |-> [d EXCEPT ![id] = new], raised |-> "none",
                  status_code |-> 200, resp |-> ApprovalResponseOf(id, new)]

(* faulty variant: the status filter left out *)
SweepMatchesAnyStatus(d, u, cutoff) ==
    {i \in Ids : d[i] # NoRow /\ d[i].user_id = u /\ d[i].created_at < cutoff}

(* the WHERE clause of the bulk update *)
SweepMatches(d, u, cutoff) ==
    {i \in Ids : /\ d[i] # NoRow
                 /\ d[i].user_id = u
                 /\ d[i].status = "pending"
                 /\ d[i].created_at < cutoff}

Expire(a, t) ==
    [a EXCEPT !.status = "expired", !.responded_at = t,
              !.response_reason = "Auto-expired due to timeout"]

expire_old_approvals(d, t, u, hours) ==
    LET cutoff_time == t - hours
        hit == SweepMatches(d, u, cutoff_time)
    IN  [db |-> [i \in Ids |-> IF i \in hit THEN Expire(d[i], t) ELSE d[i]],
         expired_count |-> Cardinality(hit), cutoff_hours |-> hours]

----------------------------------------------------------------------------
(* Requests served one after another *)

(* no pipeline run, no consensus run, no scoring call has started *)
NoRun == [node |-> "idle"]

Init ==
    /\ now = 0
    /\ db = [i \in Ids |-> NoRow]
    /\ execCount = [i \in Ids |-> 0]
    /\ pc = [p \in Procs |-> "idle"]
    /\ loc = [p \in Procs |-> NoLocal]
    /\ conv = NoRun
    /\ judy = NoRun
    /\ calc = NoRun
    /\ rec = NoRun
    /\ alex = [node |-> "idle", executed |-> {}]

Tick ==
    /\ now + TickStep <= MaxTime
    /\ now' = now + TickStep
    /\ UNCHANGED <<db, execCount, pc, loc>>
    /\ UNCHANGED agentVars

(* one more invocation of the execution collaborator for row id *)
Executed(count, id, exec) ==
    IF exec = "none" THEN count ELSE [count EXCEPT ![id] = @ + 1]

CreateApprovalRequest(risks, judys) ==
    \E u \in Users, risk \in risks, jb \in judys :
        /\ FreeIds(db) # {}
        /\ db' = create_approval_request(db, now, u, risk, jb).db
        /\ UNCHANGED <<now, execCount, pc, loc>>
        /\ UNCHANGED agentVars

GetApproval ==
    \E u \in Users, id \in Ids :
        /\ get_approval(db, u, id).status_code \in {200, 404}
        /\ UNCHANGED vars

ApproveRequest ==
    \E u \in Users, id \in Ids, reason \in Reasons, ex \in ExecBehaviours :
        LET r == approve_request(db, now, u, id, reason, ex)
        IN  /\ db' = r.db
            /\ execCount' = Executed(execCount, id, r.exec)
            /\ UNCHANGED <<now, pc, loc>>
            /\ UNCHANGED agentVars

RejectRequest ==
    \E u \in Users, id \in Ids, reason \in Reasons, ex \in ExecBehaviours :
        LET r == reject_request(db, now, u, id, reason, ex)
        IN  /\ db' = r.db
            /\ execCount' = Executed(execCount, id, r.exec)
            /\ UNCHANGED <<now, pc, loc>>
            /\ UNCHANGED agentVars

UpdateApproval(descs, exps, pays) ==
    \E u \in Users, id \in Ids, desc \in descs, exp \in exps, pay \in pays :
        /\ db' = update_approval(db, u, id, desc, exp, pay).db
        /\ UNCHANGED <<now, execCount, pc, loc>>
        /\ UNCHANGED agentVars

ExpireOldApprovals ==
    \E u \in Users, hours \in SweepHours :
        /\ db' = expire_old_approvals(db, now, u, hours).db
        /\ UNCHANGED <<now, execCount, pc, loc>>
        /\ UNCHANGED agentVars

Next ==
    \/ Tick
    \/ CreateApprovalRequest({"high"}, {"review"})
    \/ ApproveRequest
    \/ RejectRequest
    \/ UpdateApproval({"None"}, ExpiryInputs, {"None"})
    \/ ExpireOldApprovals

Spec == Init /\ [][Next]_vars

----------------------------------------------------------------------------
(* Creation alone, over every risk tier and every behaviour of the assessor *)

CreateNext ==
    \/ Tick
    \/ CreateApprovalRequest(RiskLevels, JudyBehaviours)
    \/ GetApproval

CreateSpec == Init /\ [][CreateNext]_vars

----------------------------------------------------------------------------
(* Concurrent requests: respond_to_approval yields at its awaits.  A process
   p holds the loaded object between the select and the commit. *)

DecideRead(p, reasons) ==
    \E u \in Users, id \in Ids, approved \in BOOLEAN, reason \in reasons :
        /\ pc[p] = "idle"
        /\ LET approval == SelectOwned(db, id, u)
           IN  IF DecideOutcome(approval, now) = "ok"
               THEN /\ pc' = [pc EXCEPT ![p] = "commit"]
                    /\ loc' = [loc EXCEPT ![p] =
                                 [id |-> id, approved |-> approved,
                                  obj |-> ApplyDecision(approval, approved, reason, now)]]
               ELSE UNCHANGED <<pc, loc>>
        /\ UNCHANGED <<now, db, execCount>>
        /\ UNCHANGED agentVars

DecideCommit(p) ==
    /\ pc[p] = "commit"
    /\ db' = CommitDecision(db, loc[p].id, loc[p].obj)
    /\ pc' = [pc EXCEPT ![p] = "return"]
    /\ UNCHANGED <<now, execCount, loc>>
    /\ UNCHANGED agentVars

DecideReturn(p) ==
    \E ex \in ExecBehaviours :
        /\ pc[p] = "return"
        /\ execCount' = Executed(execCount, loc[p].id,
                                 IF ExecInvoked(loc[p].approved, ex) THEN ex ELSE "none")
        /\ pc' = [pc EXCEPT ![p] = "idle"]
        /\ loc' = [loc EXCEPT ![p] = NoLocal]
        /\ UNCHANGED <<now, db>>
        /\ UNCHANGED agentVars

ConcNext ==
    \/ Tick
    \/ CreateApprovalRequest({"high"}, {"review"})
    \/ ExpireOldApprovals
    \/ UpdateApproval({"None"}, ExpiryInputs, {"None"})
    \/ \E p \in Procs : DecideRead(p, {"None"})
    \/ \E p \in Procs : DecideCommit(p)
    \/ \E p \in Procs : DecideReturn(p)

ConcSpec == Init /\ [][ConcNext]_vars

----------------------------------------------------------------------------
(* Properties *)

Owned(i, u) == db[i] # NoRow /\ db[i].user_id = u

Decided(i) == db[i] # NoRow /\ db[i].status \in {"approved", "rejected"}

(* C1: a request that is approved, rejected or expired never changes status
   again, and a pending request only stays pending or moves to one of
   those three (the claim as stated). *)
StatusIsFinal ==
    [][\A i \in Ids : db[i] # NoRow =>
          /\ db'[i] # NoRow
          /\ db[i].status \in Terminal => db'[i].status = db[i].status
          /\ db'[i].status \in {"pending"} \cup Terminal]_vars

(* C2: under interleaved requests a row that has left pending keeps its
   status, decision time and decision reason: every transition applies
   only if the row is still pending (the claim as stated). *)
TransitionOnlyFromPending ==
    [][\A i \in Ids : (db[i] # NoRow /\ db[i].status # "pending") =>
          /\ db'[i].status = db[i].status
          /\ db'[i].responded_at = db[i].responded_at
          /\ db'[i].response_reason = db[i].response_reason]_vars

(* C3: a decision on a pending, unexpired request sets status, decision
   time and reason; a further decision on the request it leaves behind is
   refused with InvalidState and changes nothing, whatever it asks for. *)
SecondDecideRefused ==
    \A i \in Ids, u \in Users, approved \in BOOLEAN, reason \in Reasons,
       ex \in ExecBehaviours :
        LET r == respond_to_approval(db, now, u, i, approved, reason, ex)
        IN  /\ (Owned(i, u) /\ Decided(i)) =>
                  /\ r.raised = "InvalidState"
                  /\ r.db = db
                  /\ r.exec = "none"
            /\ (Owned(i, u) /\ db[i].status = "pending" /\ db[i].expires_at >= now) =>
                  /\ r.raised = "none"
                  /\ r.db[i].status = (IF approved THEN "approved" ELSE "rejected")
                  /\ r.db[i].responded_at = now
                  /\ r.db[i].response_reason = reason
                  /\ \A j \in Ids \ {i} : r.db[j] = db[j]

(* a first decision has been applied, with a reason *)
SecondDecideWitness ==
    \E i \in Ids : db[i] # NoRow /\ db[i].status = "rejected"
                   /\ db[i].response_reason = "because"

(* C4: a decision on a pending request past its expiry fails with Expired
   and leaves the row in status expired (the claim as stated). *)
ExpiredDecideFlipsRow ==
    \A i \in Ids, u \in Users, approved \in BOOLEAN, reason \in Reasons :
        (Owned(i, u) /\ db[i].status = "pending" /\ db[i].expires_at < now) =>
            LET r == respond_to_approval(db, now, u, i, approved, reason, "ok")
            IN  /\ r.raised = "Expired"
                /\ r.db[i].status = "expired"

(* C5: a request becomes approved or rejected only from pending, with a
   decision time not past the expiry it has at that moment (the claim as
   stated). *)
DecisionOnlyOnLivePending ==
    [][\A i \in Ids :
          (/\ db'[i] # NoRow
           /\ db'[i].status \in {"approved", "rejected"}
           /\ (db[i] = NoRow \/ db[i].status # db'[i].status)) =>
          /\ db[i] # NoRow
          /\ db[i].status = "pending"
          /\ db'[i].responded_at <= db[i].expires_at]_vars

(* C6: approve and reject report NotFound as 404 and InvalidState and
   Expired as 400 to the caller, and leave the table alone in the first
   two cases (the claim as stated). *)
DecisionErrorsExplicit ==
    \A i \in Ids, u \in Users, reason \in Reasons :
        LET a == approve_request(db, now, u, i, reason, "ok")
            r == reject_request(db, now, u, i, reason, "ok")
        IN  \A x \in {a, r} :
              /\ x.raised = "NotFound" => (x.status_code = 404 /\ x.db = db)
              /\ x.raised = "InvalidState" => (x.status_code = 400 /\ x.db = db)
              /\ x.raised = "Expired" => x.status_code = 400

(* C7: an approved or rejected request has a decision time, not earlier
   than its creation time. *)
DecidedHasTime ==
    \A i \in Ids : Decided(i) =>
        /\ db[i].responded_at # NoTime
        /\ db[i].responded_at >= db[i].created_at

DecidedHasTimeWitness ==
    \E i \in Ids : Decided(i) /\ db[i].responded_at > db[i].created_at

(* the rows a sweep by anyone should expire, as C8 states it *)
Stale(i, hours) ==
    db[i] # NoRow /\ db[i].status = "pending" /\ db[i].created_at < now - hours

SweepEffect(r, hit) ==
    /\ \A i \in Ids :
          IF i \in hit
          THEN /\ r.db[i].status = "expired"
               /\ r.db[i].responded_at = now
               /\ r.db[i].response_reason = "Auto-expired due to timeout"
               /\ r.db[i].created_at = db[i].created_at
               /\ r.db[i].user_id = db[i].user_id
          ELSE r.db[i] = db[i]
    /\ r.expired_count = Cardinality(hit)

(* C8 as stated: a sweep expires all and only the pending requests created
   before now - hours, whoever owns them, and returns their number. *)
SweepAllAndOnly ==
    \A u \in Users, hours \in SweepHours :
        SweepEffect(expire_old_approvals(db, now, u, hours),
                    {i \in Ids : Stale(i, hours)})

(* C8 amended: a sweep expires all and only the caller's pending requests
   created strictly before now - hours, leaves every other row as it is,
   and returns the number of rows it expired. *)
SweepOwnedAllAndOnly ==
    \A u \in Users, hours \in SweepHours :
        SweepEffect(expire_old_approvals(db, now, u, hours),
                    {i \in Ids : Stale(i, hours) /\ db[i].user_id = u})

(* a sweep has expired one row and left a younger row of the same owner *)
SweepWitness ==
    \E i, j \in Ids :
        /\ db[i] # NoRow /\ db[j] # NoRow
        /\ db[i].user_id = db[j].user_id
        /\ db[i].status = "expired"
        /\ db[j].status = "pending"
        /\ db[j].created_at < db[i].responded_at

(* C9: the execution collaborator runs at most once per request and only
   for a request that is approved; a rejection or a refused decision never
   runs it, and a run that fails leaves the request approved (the claim as
   stated). *)
ExecutionOnlyOnceOnApproval ==
    /\ \A i \in Ids :
          /\ execCount[i] <= 1
          /\ execCount[i] > 0 => (db[i] # NoRow /\ db[i].status = "approved")
    /\ \A i \in Ids, u \in Users, reason \in Reasons, ex \in ExecBehaviours :
          LET a == approve_request(db, now, u, i, reason, ex)
              r == reject_request(db, now, u, i, reason, ex)
          IN  /\ r.exec = "none"
              /\ a.raised # "none" => a.exec = "none"
              /\ a.exec # "none" => a.db[i].status = "approved"

Assessed(a) ==
    /\ a.judy_verdict # "None"
    /\ a.judy_confidence # NoTime
    /\ a.judy_reasoning # "None"

Unassessed(a) ==
    /\ a.judy_verdict = "None"
    /\ a.judy_confidence = NoTime
    /\ a.judy_reasoning = "None"

(* C10: creation returns a pending request that expires 24 hours after its
   creation time, for every risk tier; the request carries a verdict, a
   confidence and a reasoning exactly when its tier is high or critical. *)
CreatePendingAssessedIffElevated ==
    /\ \A u \in Users, risk \in RiskLevels, jb \in JudyBehaviours :
          FreeIds(db) # {} =>
            LET r == create_approval_request(db, now, u, risk, jb)
            IN  /\ r.resp.status = "pending"
                /\ r.resp.created_at = now
                /\ r.resp.expires_at = r.resp.created_at + 24
                /\ r.resp.risk_level = risk
                /\ r.resp = ApprovalResponseOf(r.id, r.db[r.id])
                /\ IF risk \in {"high", "critical"}
                   THEN Assessed(r.resp) ELSE Unassessed(r.resp)
    /\ \A i \in Ids : db[i] # NoRow =>
          /\ db[i].expires_at = db[i].created_at + 24
          /\ IF db[i].risk_level \in {"high", "critical"}
             THEN Assessed(db[i]) ELSE Unassessed(db[i])

CreateWitness ==
    \E i, j \in Ids :
        /\ db[i] # NoRow /\ db[j] # NoRow
        /\ db[i].risk_level = "medium" /\ Unassessed(db[i])
        /\ db[j].risk_level = "critical" /\ Assessed(db[j])

(* C11: when the assessment of a high or critical request fails (the
   assessor is missing, or the call raises), creation succeeds, the request
   is returned pending and carries no verdict, confidence or reasoning
   (the claim as stated). *)
CreateFailedAssessmentIsNull ==
    \A u \in Users, risk \in {"high", "critical"}, jb \in {"missing", "raises"} :
        FreeIds(db) # {} =>
            LET r == create_approval_request(db, now, u, risk, jb)
            IN  /\ r.status_code = 200
                /\ r.resp.status = "pending"
                /\ Unassessed(r.resp)
                /\ Unassessed(r.db[r.id])

----------------------------------------------------------------------------
(* Conversation pipeline of agents/orchestrator.py.  One call of
   process_message is the variable conv: the node of the graph about to run,
   the nodes run so far, the ConversationState, the state the branch
   function was given (at_branch), the arguments of the call and, at the
   end, the response.  Texts are records (body, note) so that an
   appended disclosure can be told from the text it is appended to. *)

Agents == {"carol", "alex", "sofia", "morgan", "judy"}

(* the agent_id of a call: none, a registered agent, an unknown one *)
PinnedAgents == {"None", "alex", "ghost"}

(* the session_id of a call: none or the caller's *)
SessionInputs == {"None", "s1"}

(* self.agents when the call arrives: after initialize(), without the
   validator, before initialize() *)
AgentSets == {Agents, Agents \ {"judy"}, {}}

(* labels of the routing table, and one that is not in it *)
Intents ==
    {"general", "system_command", "validation_request", "consensus_building",
     "small_talk"}

(* the intent classifier returns a label or raises *)
IntentBehaviours == Intents \cup {"raises"}

(* what agent.process_message does: it raises, or returns a result whose
   metadata may carry an error flag *)
AgentResults ==
    {[raises |-> "yes"]} \cup
    [raises : {"no"}, requires_approval : BOOLEAN,
     approval_request : {"None", "dict", "malformed"},
     metadata_error : BOOLEAN]

(* confidence scores in hundredths *)
ConfidenceScores == {50, 69, 70, 90}

(* what judy.validate_response does: it raises, it returns a confidence, or
   it fails inside and returns the result of its own `except` (confidence
   0.5, "Validation failed due to error") *)
ValidationBehaviours ==
    {[raises |-> TRUE], [raises |-> FALSE, confidence_score |-> 50, failed |-> TRUE]}
    \cup [raises : {FALSE}, confidence_score : ConfidenceScores, failed : {FALSE}]

(* self.memory_broker: not set, stores the turn, raises *)
MemoryBehaviours == {"none", "ok", "raises"}

(* `validation.get("confidence_score", 1.0) < 0.7`, in hundredths *)
DisclosureThreshold == 70

NoValidation == [present |-> FALSE]

NoNote == [shown |-> FALSE]

NoText == [body |-> "None", note |-> NoNote]

Text(body) == [body |-> body, note |-> NoNote]

(* ConversationState() as process_message fills it in *)
ConversationState(agent_id, session_id) ==
    [current_agent |-> agent_id,
     intent |-> "None",
     context |-> [error |-> "None", agent_response |-> "None",
                  pending_approval |-> "None", validation |-> NoValidation,
                  validation_error |-> "None", final_response |-> NoText],
     requires_approval |-> FALSE,
     approval_request |-> "None",
     session_id |-> IF session_id # "None" THEN session_id ELSE "session_fresh"]

(* Python truth of context.get("error"): false for a missing key; the error
   texts of the model are not empty *)
Truthy(error) == error # "None"

_detect_intent(state, intent) == [state EXCEPT !.intent = intent]

agent_routing(intent) ==
    CASE intent \in {"email", "calendar", "task_management", "general"} -> "carol"
      [] intent \in {"system_monitoring", "system_command"} -> "alex"
      [] intent \in {"document_processing", "knowledge_query", "content_generation"} -> "sofia"
      [] intent \in {"financial_analysis", "market_data", "investment_advice"} -> "morgan"
      [] intent \in {"validation_request", "consensus_building"} -> "judy"
      [] OTHER -> "carol"

(* faulty variant: the table applied also when an agent is pinned *)
RouteToAgentIgnoresPin(state) ==
    [state EXCEPT !.current_agent = agent_routing(state.intent)]

_route_to_agent(state) ==
    IF state.current_agent # "None" THEN state
    ELSE [state EXCEPT !.current_agent = agent_routing(state.intent)]

_process_with_agent(state, agents, result) ==
    IF state.current_agent \notin agents
    THEN [state EXCEPT !.context.error = "Agent not available"]
    ELSE IF result.raises = "yes"
    THEN [state EXCEPT !.context.error = "exception"]
    ELSE [state EXCEPT
            !.context.error = IF result.metadata_error THEN "True" ELSE @,
            !.requires_approval = result.requires_approval,
            !.approval_request =
                IF result.requires_approval THEN result.approval_request ELSE @,
            !.context.agent_response = "answer"]

sensitive_intents == {"validation_request", "consensus_building"}

(* faulty variant: the approval flag looked at before the error *)
ShouldRequestApprovalFlagFirst(state) ==
    IF state.requires_approval THEN "approval_required"
    ELSE IF Truthy(state.context.error) THEN "finalize"
    ELSE IF state.intent \in sensitive_intents THEN "validation_required"
    ELSE "finalize"

_should_request_approval(state) ==
    IF Truthy(state.context.error) THEN "finalize"
    ELSE IF state.requires_approval THEN "approval_required"
    ELSE IF state.intent \in sensitive_intents THEN "validation_required"
    ELSE "finalize"

(* the mapping of add_conditional_edges *)
ConditionalEdge(branch) ==
    CASE branch = "approval_required" -> "request_approval"
      [] branch = "validation_required" -> "validate_with_judy"
      [] branch = "finalize" -> "finalize_response"

_request_approval(state) ==
    IF state.approval_request = "None" THEN state
    ELSE IF state.approval_request = "malformed"
    THEN [state EXCEPT !.context.pending_approval = "pending",
                       !.context.error = "Approval request failed"]
    ELSE [state EXCEPT !.context.pending_approval = "pending"]

_validate_with_judy(state, agents, v) ==
    IF "judy" \notin agents THEN state
    ELSE IF v.raises THEN [state EXCEPT !.context.validation_error = "exception"]
    ELSE [state EXCEPT !.context.validation =
                           [present |-> TRUE, confidence_score |-> v.confidence_score,
                            failed |-> v.failed]]

(* faulty variant: the disclosure appended also at the threshold *)
DisclosedAtThreshold(validation) ==
    validation.present /\ validation.confidence_score <= DisclosureThreshold

(* `validation and validation.get("confidence_score", 1.0) < 0.7` *)
Disclosed(validation) ==
    validation.present /\ validation.confidence_score < DisclosureThreshold

_finalize_response(state, memory) ==
    LET error == state.context.error
        first == IF Truthy(error)
                 THEN Text("I encountered an error: " \o error)
                 ELSE IF state.context.agent_response # "None"
                 THEN Text(state.context.agent_response)
                 ELSE Text("I'm sorry, I couldn't process your request.")
        validation == state.context.validation
        noted == IF Disclosed(validation)
                 THEN [first EXCEPT !.note =
                          [shown |-> TRUE, percent |-> validation.confidence_score]]
                 ELSE first
    IN  IF memory = "raises"
        THEN [state EXCEPT !.context.final_response =
                Text("I encountered an error while processing your request.")]
        ELSE [state EXCEPT !.context.final_response = noted]

(* the dict process_message returns after graph.ainvoke *)
GraphResponse(final_state) ==
    [message |-> final_state.context.final_response,
     agent_id |-> final_state.current_agent,
     session_id |-> final_state.session_id,
     metadata |-> final_state.context,
     requires_approval |-> final_state.requires_approval]

(* faulty variant: the fault response always bound to the coordinator *)
FaultResponseCoordinator(agent_id, session_id) ==
    [message |-> Text("I encountered an error processing your request"),
     agent_id |-> "carol",
     session_id |-> IF session_id # "None" THEN session_id ELSE "session_fresh",
     metadata |-> [error |-> TRUE],
     requires_approval |-> FALSE]

(* the dict of the `except Exception` of process_message *)
FaultResponse(agent_id, session_id) ==
    [message |-> Text("I encountered an error processing your request"),
     agent_id |-> IF agent_id # "None" THEN agent_id ELSE "carol",
     session_id |-> IF session_id # "None" THEN session_id ELSE "session_fresh",
     metadata |-> [error |-> TRUE],
     requires_approval |-> FALSE]

_fallback_processing(agent_id, agents, result) ==
    LET wanted == IF agent_id # "None" THEN agent_id ELSE "carol"
        target_agent_id == IF wanted \in agents THEN wanted ELSE "carol"
    IN  IF target_agent_id \notin agents \/ result.raises # "no"
        THEN [message |-> Text("I'm currently experiencing technical difficulties."),
              agent_id |-> "carol",
              session_id |-> "error_fresh",
              metadata |-> [fallback_error |-> "exception"],
              requires_approval |-> FALSE]
        ELSE [message |-> Text("answer"),
              agent_id |-> target_agent_id,
              session_id |-> "fallback_fresh",
              metadata |-> [error |-> result.metadata_error],
              requires_approval |-> result.requires_approval]

NoResponse == [message |-> NoText]

(* conv after one more node has run *)
Advance(node, state, to) ==
    [conv EXCEPT !.node = to, !.trace = Append(@, node), !.state = state]

(* process_message up to the first node of the graph, or through
   _fallback_processing when the graph is not built *)
ProcessMessage ==
    \E agent_id \in PinnedAgents, session_id \in SessionInputs,
       graph \in BOOLEAN, agents \in AgentSets, result \in AgentResults :
        /\ conv.node \in {"idle", "returned"}
        /\ conv' = [node |-> IF graph THEN "detect_intent" ELSE "returned",
                    trace |-> << >>,
                    state |-> ConversationState(agent_id, session_id),
                    at_branch |-> ConversationState(agent_id, session_id),
                    agent_id |-> agent_id,
                    session_id |-> session_id,
                    graph |-> graph,
                    agents |-> agents,
                    fault |-> FALSE,
                    response |-> IF graph THEN NoResponse
                                 ELSE _fallback_processing(agent_id, agents, result)]
        /\ UNCHANGED <<judy, calc, rec, alex>>
        /\ UNCHANGED approvalVars

(* the node detect_intent; an exception leaves the graph and is caught by
   process_message *)
DetectIntent ==
    \E intent \in IntentBehaviours :
        /\ conv.node = "detect_intent"
        /\ IF intent = "raises"
           THEN conv' = [conv EXCEPT
                           !.node = "returned",
                           !.trace = Append(@, "detect_intent"),
                           !.fault = TRUE,
                           !.response = FaultResponse(conv.agent_id, conv.session_id)]
           ELSE conv' = Advance("detect_intent", _detect_intent(conv.state, intent),
                                "route_to_agent")
        /\ UNCHANGED <<judy, calc, rec, alex>>
        /\ UNCHANGED approvalVars

RouteToAgent ==
    /\ conv.node = "route_to_agent"
    /\ conv' = Advance("route_to_agent", _route_to_agent(conv.state),
                       "process_with_agent")
    /\ UNCHANGED <<judy, calc, rec, alex>>
    /\ UNCHANGED approvalVars

(* the node process_with_agent and the conditional edge after it *)
ProcessWithAgent ==
    \E result \in AgentResults :
        /\ conv.node = "process_with_agent"
        /\ LET state == _process_with_agent(conv.state, conv.agents, result)
           IN  conv' = [Advance("process_with_agent", state,
                                ConditionalEdge(_should_request_approval(state)))
                          EXCEPT !.at_branch = state]
        /\ UNCHANGED <<judy, calc, rec, alex>>
        /\ UNCHANGED approvalVars

(* faulty variant: the edge from request_approval drawn to finalize_response *)
RequestApprovalSkipsValidation ==
    /\ conv.node = "request_approval"
    /\ conv' = Advance("request_approval", _request_approval(conv.state),
                       "finalize_response")
    /\ UNCHANGED <<judy, calc, rec, alex>>
    /\ UNCHANGED approvalVars

RequestApproval ==
    /\ conv.node = "request_approval"
    /\ conv' = Advance("request_approval", _request_approval(conv.state),
                       "validate_with_judy")
    /\ UNCHANGED <<judy, calc, rec, alex>>
    /\ UNCHANGED approvalVars

ValidateWithJudy ==
    \E v \in ValidationBehaviours :
        /\ conv.node = "validate_with_judy"
        /\ conv' = Advance("validate_with_judy",
                           _validate_with_judy(conv.state, conv.agents, v),
                           "finalize_response")
        /\ UNCHANGED <<judy, calc, rec, alex>>
        /\ UNCHANGED approvalVars

FinalizeResponse ==
    \E memory \in MemoryBehaviours :
        /\ conv.node = "finalize_response"
        /\ conv' = Advance("finalize_response",
                           _finalize_response(conv.state, memory), "END")
        /\ UNCHANGED <<judy, calc, rec, alex>>
        /\ UNCHANGED approvalVars

(* graph.ainvoke has returned: process_message builds its response *)
ReturnResponse ==
    /\ conv.node = "END"
    /\ conv' = [conv EXCEPT !.node = "returned",
                            !.response = GraphResponse(conv.state)]
    /\ UNCHANGED <<judy, calc, rec, alex>>
    /\ UNCHANGED approvalVars

PipeNext ==
    \/ ProcessMessage
    \/ DetectIntent
    \/ RouteToAgent
    \/ ProcessWithAgent
    \/ RequestApproval
    \/ ValidateWithJudy
    \/ FinalizeResponse
    \/ ReturnResponse

PipeSpec == Init /\ [][PipeNext]_vars

----------------------------------------------------------------------------
(* Properties of the pipeline *)

(* the run has passed the branch after process_with_agent *)
Branched == conv.node # "idle" /\ conv.graph /\ Len(conv.trace) >= 3

(* the node entered after process_with_agent *)
NodeAfterBranch == IF Len(conv.trace) = 3 THEN conv.node ELSE conv.trace[4]

(* the nodes entered after process_with_agent, the pending one included *)
NodesAfterBranch ==
    {conv.trace[k] : k \in 4..Len(conv.trace)} \cup
    (IF conv.node \in {"END", "returned"} THEN {} ELSE {conv.node})

(* C12: after process_with_agent the next node is finalize_response if an
   error was recorded, else request_approval if approval is required, else
   validate_with_judy if the intent is validation_request or
   consensus_building, else finalize_response.  A run that reaches the
   branch with a recorded error enters neither request_approval nor
   validate_with_judy, also when approval was required; a completed run
   with intent validation_request, no error and no approval flag has run
   detect_intent, route_to_agent, process_with_agent, validate_with_judy,
   finalize_response and nothing else. *)
BranchInPrecedence ==
    Branched =>
        LET b == conv.at_branch
            error == b.context.error # "None"
        IN  /\ NodeAfterBranch =
                  (IF error THEN "finalize_response"
                   ELSE IF b.requires_approval THEN "request_approval"
                   ELSE IF b.intent \in {"validation_request", "consensus_building"}
                   THEN "validate_with_judy"
                   ELSE "finalize_response")
            /\ error => NodesAfterBranch \subseteq {"finalize_response"}
            /\ (/\ conv.node = "returned"
                /\ b.intent = "validation_request"
                /\ ~error
                /\ ~b.requires_approval) =>
                  conv.trace = <<"detect_intent", "route_to_agent",
                                 "process_with_agent", "validate_with_judy",
                                 "finalize_response">>

(* a run that had both an error and the approval flag at the branch has
   completed *)
BranchWitness ==
    /\ conv.node = "returned"
    /\ conv.graph
    /\ Len(conv.trace) = 4
    /\ conv.at_branch.context.error # "None"
    /\ conv.at_branch.requires_approval
    /\ conv.at_branch.intent = "validation_request"

ResponseKeys == {"message", "agent_id", "session_id", "metadata", "requires_approval"}

Nodes ==
    {"detect_intent", "route_to_agent", "process_with_agent", "request_approval",
     "validate_with_judy", "finalize_response", "END"}

(* C13: process_message ends in a response and in nothing else, whichever
   stage failed and also without a graph: the response has a message, an
   agent id, a session id, metadata and a requires_approval flag; after a
   fault caught by process_message itself it is bound to the pinned agent,
   else to carol, its metadata are error = true and requires_approval is
   false. *)
AlwaysAResponse ==
    /\ conv.node \in {"idle", "returned"} \cup Nodes
    /\ conv.node = "returned" =>
          /\ DOMAIN conv.response = ResponseKeys
          /\ conv.response.message # NoText
          /\ conv.response.agent_id # "None"
          /\ conv.response.session_id # "None"
          /\ conv.response.requires_approval \in BOOLEAN
          /\ conv.fault =>
                /\ conv.response.agent_id =
                      (IF conv.agent_id # "None" THEN conv.agent_id ELSE "carol")
                /\ conv.response.metadata = [error |-> TRUE]
                /\ conv.response.requires_approval = FALSE

(* a call with a pinned agent has ended in the fault response *)
AlwaysAResponseWitness ==
    /\ conv.node = "returned"
    /\ conv.fault
    /\ conv.agent_id = "alex"
    /\ conv.response.agent_id = "alex"

(* what _finalize_response is to write when nothing goes wrong before the
   note: the error message, else the responder's answer *)
PlainText(state) ==
    IF state.context.error # "None"
    THEN Text("I encountered an error: " \o state.context.error)
    ELSE Text(state.context.agent_response)

(* C14 as stated: the final text carries the disclosure if and only if a
   validation result is present with confidence below 0.7; otherwise it is
   exactly the responder's answer, or the error message. *)
FinalizeDisclosesIff ==
    conv.node = "finalize_response" =>
        \A memory \in MemoryBehaviours :
            LET v == conv.state.context.validation
                low == v.present /\ v.confidence_score < 70
                text == _finalize_response(conv.state, memory).context.final_response
            IN  /\ text.note.shown <=> low
                /\ ~low => text = PlainText(conv.state)

(* C14 amended: when storing the turn does not raise, the final text is the
   responder's answer (or the error message) with the disclosure of the
   confidence appended if and only if a validation result is present with
   confidence strictly below 0.7, and with nothing appended otherwise; when
   storing the turn raises, the final text is the generic error message
   without disclosure, whatever the validation result. *)
FinalizeDisclosesUnlessStoreFails ==
    conv.node = "finalize_response" =>
        \A memory \in MemoryBehaviours :
            LET v == conv.state.context.validation
                low == v.present /\ v.confidence_score < 70
                text == _finalize_response(conv.state, memory).context.final_response
            IN  IF memory = "raises"
                THEN text = Text("I encountered an error while processing your request.")
                ELSE /\ text.body = PlainText(conv.state).body
                     /\ text.note.shown <=> low
                     /\ low => text.note.percent = v.confidence_score

(* a run has ended with a disclosure of 69 percent *)
FinalizeWitness ==
    /\ conv.node = "returned"
    /\ conv.graph
    /\ ~conv.fault
    /\ conv.response.message.note.shown
    /\ conv.response.message.note.percent = 69

(* C15: the response carries the caller's session id whenever one was
   supplied, on every path; a fresh one only when none was supplied (the
   claim as stated). *)
SessionIdKept ==
    conv.node = "returned" =>
        IF conv.session_id # "None"
        THEN conv.response.session_id = conv.session_id
        ELSE conv.response.session_id \in
                {"session_fresh", "fallback_fresh", "error_fresh"}

----------------------------------------------------------------------------
(* Consensus engine of agents/judy.py.  One call of validate_response is
   the variable judy: the step about to run, the configuration, what each
   source did, the sources collected and the results computed.  Validation
   scores and source weights are counted in hundredths, confidence scores
   in units of 1/30000, in which the blend of _calculate_confidence_score
   is exact for up to six sources. *)

MaxSources == 4

(* 1.0 as a confidence score *)
ConfidenceOne == 30000

(* `confidence_score >= 0.8` *)
ApproveThreshold == 24000

(* `confidence_score < 0.4` *)
RejectThreshold == 12000

SourceNames == <<"OpenAI GPT-4", "Perplexity AI", "Local LLM (Llama3-70B)">>

(* the "confidence" each block of _build_consensus attaches *)
SourceConfidence(name) ==
    CASE name = "OpenAI GPT-4" -> 90
      [] name = "Perplexity AI" -> 85
      [] name = "Local LLM (Llama3-70B)" -> 75

(* settings.OPENAI_API_KEY, settings.PERPLEXITY_API_KEY, self.primary_llm *)
Environments == [OPENAI_API_KEY : BOOLEAN, PERPLEXITY_API_KEY : BOOLEAN,
                 primary_llm : BOOLEAN]

(* the `if` in front of each query *)
Configured(name, env) ==
    CASE name = "OpenAI GPT-4" -> env.OPENAI_API_KEY /\ env.primary_llm
      [] name = "Perplexity AI" -> env.PERPLEXITY_API_KEY /\ env.primary_llm
      [] name = "Local LLM (Llama3-70B)" -> env.primary_llm

(* a generation source answers or raises *)
QueryBehaviours == {"answered", "failed"}

(* faulty variant: a source that raised is kept in the list *)
QuerySourceKeepsFailed(consensus_sources, name, env, b) ==
    IF Configured(name, env)
    THEN Append(consensus_sources,
                [name |-> name, confidence |-> SourceConfidence(name)])
    ELSE consensus_sources

(* one block of _build_consensus: the source is appended when it is
   configured and its call returns *)
QuerySource(consensus_sources, name, env, b) ==
    IF Configured(name, env) /\ b = "answered"
    THEN Append(consensus_sources,
                [name |-> name, confidence |-> SourceConfidence(name)])
    ELSE consensus_sources

(* the number the patterns of _extract_validation_score find in the
   analysis, in hundredths: written fractions up to 1.0, and 1.5, 85, 100 *)
ValidationScores == {0, 30, 50, 80, 100, 150, 8500, 10000}

(* what self._generate_response does with the validation prompt: it raises,
   or returns a text in which a pattern matches a number, or none does *)
ValidationAnalyses ==
    {[raises |-> TRUE], [raises |-> FALSE, matched |-> FALSE, score |-> 0]}
    \cup [raises : {FALSE}, matched : {TRUE}, score : ValidationScores]

(* min(max(score, 0.0), 1.0) if score <= 1.0 else score / 10.0; 0.6 when no
   pattern matches *)
_extract_validation_score(analysis) ==
    IF ~analysis.matched THEN 60
    ELSE IF analysis.score <= 100
    THEN (IF analysis.score > 0 THEN analysis.score ELSE 0)
    ELSE analysis.score \div 10

_assess_hallucination_risk(validation_score) ==
    IF validation_score >= 80 THEN "low"
    ELSE IF validation_score >= 50 THEN "medium"
    ELSE "high"

_find_agreements(consensus_data) ==
    IF Len(consensus_data) >= 2
    THEN <<"Multiple sources provide consistent information">>
    ELSE << >>

_find_disagreements(consensus_data) ==
    IF Len(consensus_data) < 2
    THEN <<"Limited consensus data available for comparison">>
    ELSE << >>

_validate_against_consensus(consensus_data, analysis) ==
    IF consensus_data = << >>
    THEN [validation_score |-> 50,
          reasoning |-> "Unable to build consensus for validation",
          agreements |-> << >>, disagreements |-> << >>,
          hallucination_risk |-> "unknown"]
    ELSE IF analysis.raises
    THEN [validation_score |-> 50,
          reasoning |-> "Validation analysis failed",
          agreements |-> << >>, disagreements |-> << >>,
          hallucination_risk |-> "unknown"]
    ELSE [validation_score |-> _extract_validation_score(analysis),
          reasoning |-> "analysis",
          agreements |-> _find_agreements(consensus_data),
          disagreements |-> _find_disagreements(consensus_data),
          hallucination_risk |->
              _assess_hallucination_risk(_extract_validation_score(analysis))]

RECURSIVE SumConfidence(_)
(* sum(source.get("confidence", 0.5) for source in consensus_data) *)
SumConfidence(consensus_data) ==
    IF consensus_data = << >> THEN 0
    ELSE Head(consensus_data).confidence + SumConfidence(Tail(consensus_data))

(* faulty variant: a reliability of 0.5 assumed when no source answered *)
CalculateConfidenceScoreDefaultReliability(validation_score, consensus_data) ==
    LET n == Len(consensus_data)
        confidence == 150 * validation_score + 3000 * n
                      + (IF n = 0 THEN 3000
                         ELSE (60 \div n) * SumConfidence(consensus_data))
        low == IF confidence > 0 THEN confidence ELSE 0
    IN  IF low < ConfidenceOne THEN low ELSE ConfidenceOne

(* faulty variant: the blend returned without the clamp *)
CalculateConfidenceScoreUnclamped(validation_score, consensus_data) ==
    LET n == Len(consensus_data)
        m == IF n > 1 THEN n ELSE 1
    IN  150 * validation_score + 3000 * n
        + (60 \div m) * SumConfidence(consensus_data)

(* base_score * 0.5 + len / 3.0 * 0.3 + sum / max(len, 1) * 0.2, clamped;
   times 30000: 150 * score + 3000 * len + (60 / max(len, 1)) * sum *)
_calculate_confidence_score(validation_score, consensus_data) ==
    LET n == Len(consensus_data)
        m == IF n > 1 THEN n ELSE 1
        confidence == 150 * validation_score
                      + 3000 * n
                      + (60 \div m) * SumConfidence(consensus_data)
        low == IF confidence > 0 THEN confidence ELSE 0
    IN  IF low < ConfidenceOne THEN low ELSE ConfidenceOne

(* what the response under review contains: a high-risk term, a medium-risk
   term only, neither *)
ResponseTexts == {"high_term", "medium_term", "plain"}

RespondingAgents == {"alex", "carol"}

_assess_response_risk(response, agent_id) ==
    IF response = "high_term" THEN "high"
    ELSE IF response = "medium_term" THEN "medium"
    ELSE IF agent_id \in {"alex"} THEN "medium"
    ELSE "low"

(* faulty variant: approval whatever the risk *)
MakeRecommendationAnyRisk(confidence_score, risk_level, validation_result) ==
    IF confidence_score >= ApproveThreshold THEN "approve"
    ELSE IF confidence_score < RejectThreshold
            \/ validation_result.hallucination_risk = "high" THEN "reject"
    ELSE "review"

(* faulty variant: the risk tier looked at before the rejection *)
MakeRecommendationReviewFirst(confidence_score, risk_level, validation_result) ==
    IF confidence_score >= ApproveThreshold /\ risk_level = "low" THEN "approve"
    ELSE IF risk_level \in {"high", "critical"} THEN "review"
    ELSE IF confidence_score < RejectThreshold
            \/ validation_result.hallucination_risk = "high" THEN "reject"
    ELSE "review"

_make_recommendation(confidence_score, risk_level, validation_result) ==
    IF confidence_score >= ApproveThreshold /\ risk_level = "low" THEN "approve"
    ELSE IF confidence_score < RejectThreshold
            \/ validation_result.hallucination_risk = "high" THEN "reject"
    ELSE IF risk_level \in {"high", "critical"} THEN "review"
    ELSE "review"

(* the names of consensus_sources, in order *)
NamesOf(consensus_data) ==
    [k \in 1..Len(consensus_data) |-> consensus_data[k].name]

(* the dict validate_response returns *)
ValidationOutcome(validation_result, consensus_data, response, agent_id) ==
    LET confidence_score ==
            _calculate_confidence_score(validation_result.validation_score,
                                        consensus_data)
        risk_assessment == _assess_response_risk(response, agent_id)
    IN  [confidence_score |-> confidence_score,
         risk_assessment |-> risk_assessment,
         recommendation |-> _make_recommendation(confidence_score, risk_assessment,
                                                 validation_result),
         reasoning |-> validation_result.reasoning,
         consensus_sources |-> NamesOf(consensus_data)]

(* validate_response called: nothing queried yet *)
ValidateResponse ==
    \E env \in Environments, response \in ResponseTexts,
       agent_id \in RespondingAgents :
        /\ judy.node \in {"idle", "returned"}
        /\ judy' = [node |-> "query", next |-> 1, env |-> env,
                    response |-> response, agent_id |-> agent_id,
                    did |-> [k \in 1..3 |-> "pending"],
                    consensus_sources |-> << >>]
        /\ UNCHANGED <<conv, calc, rec, alex>>
        /\ UNCHANGED approvalVars

(* the next block of _build_consensus: the source is skipped when it is not
   configured, else it is asked and answers or raises *)
QueryNextSource ==
    \E b \in QueryBehaviours :
        /\ judy.node = "query"
        /\ LET k == judy.next
               name == SourceNames[k]
               did == IF Configured(name, judy.env) THEN b ELSE "skipped"
           IN  judy' = [judy EXCEPT
                          !.consensus_sources = QuerySource(@, name, judy.env, b),
                          !.did[k] = did,
                          !.next = k + 1,
                          !.node = IF k = 3 THEN "validate" ELSE "query"]
        /\ UNCHANGED <<conv, calc, rec, alex>>
        /\ UNCHANGED approvalVars

ValidateAgainstConsensus ==
    \E analysis \in ValidationAnalyses :
        /\ judy.node = "validate"
        /\ judy' = [node |-> "assess", env |-> judy.env,
                    response |-> judy.response, agent_id |-> judy.agent_id,
                    did |-> judy.did,
                    consensus_sources |-> judy.consensus_sources,
                    validation_result |->
                        _validate_against_consensus(judy.consensus_sources, analysis)]
        /\ UNCHANGED <<conv, calc, rec, alex>>
        /\ UNCHANGED approvalVars

(* confidence, risk, recommendation and the return of validate_response *)
ReturnValidation ==
    /\ judy.node = "assess"
    /\ judy' = [node |-> "returned", env |-> judy.env,
                response |-> judy.response, agent_id |-> judy.agent_id,
                did |-> judy.did,
                consensus_sources |-> judy.consensus_sources,
                validation_result |-> judy.validation_result,
                result |-> ValidationOutcome(judy.validation_result,
                                             judy.consensus_sources,
                                             judy.response, judy.agent_id)]
    /\ UNCHANGED <<conv, calc, rec, alex>>
    /\ UNCHANGED approvalVars

JudyNext ==
    \/ ValidateResponse
    \/ QueryNextSource
    \/ ValidateAgainstConsensus
    \/ ReturnValidation

JudySpec == Init /\ [][JudyNext]_vars

----------------------------------------------------------------------------
(* Properties of the consensus engine *)

(* _build_consensus has returned *)
ConsensusBuilt == judy.node \in {"validate", "assess", "returned"}

(* the sources that answered, in the order of the queries, each with the
   weight the claim gives it *)
AnsweredSources ==
    LET weight == <<90, 85, 75>>
        hit == SelectSeq(<<1, 2, 3>>, LAMBDA k : judy.did[k] = "answered")
    IN  [j \in 1..Len(hit) |->
            [name |-> SourceNames[hit[j]], confidence |-> weight[hit[j]]]]

(* C16: _build_consensus ends without raising; every configured source has
   been asked, whatever the sources before it did, and the list returned
   holds exactly the sources that are configured and answered, in query
   order, with weights 0.9, 0.85 and 0.75. *)
ConsensusOmitsFailedSources ==
    /\ judy.node \in {"idle", "query", "validate", "assess", "returned"}
    /\ ConsensusBuilt =>
          /\ \A k \in 1..3 :
                /\ judy.did[k] \in {"skipped", "answered", "failed"}
                /\ judy.did[k] = "skipped" <=> ~Configured(SourceNames[k], judy.env)
          /\ judy.consensus_sources = AnsweredSources

(* the first source raised, the second is not configured, the third was
   still asked and is the only one returned *)
ConsensusWitness ==
    /\ judy.node = "returned"
    /\ judy.did = <<"failed", "skipped", "answered">>
    /\ Len(judy.consensus_sources) = 1

(* C17: when no source answers, _build_consensus returns the empty list,
   and _validate_against_consensus on it returns score 0.5, hallucination
   risk "medium" and a reasoning saying that no consensus was available
   (the claim as stated). *)
EmptyConsensusIsMedium ==
    /\ (ConsensusBuilt /\ \A k \in 1..3 : judy.did[k] # "answered") =>
          judy.consensus_sources = << >>
    /\ (judy.node \in {"assess", "returned"} /\ judy.consensus_sources = << >>) =>
          /\ judy.validation_result.validation_score = 50
          /\ judy.validation_result.hallucination_risk = "medium"
          /\ judy.validation_result.reasoning =
                "Unable to build consensus for validation"

----------------------------------------------------------------------------
(* _calculate_confidence_score on its own.  The variable calc is the last
   call: its validation score, its sources and the score returned.  The
   next call has one more source, or a higher validation score. *)

(* a-priori weights of a source, in hundredths: the three of
   _build_consensus and the ends and the middle of [0, 1] *)
Weights == {0, 50, 75, 85, 90, 100}

(* validation scores 0.0, 0.1 .. 1.0, in hundredths *)
ValidationInputs == {10 * k : k \in 0..10}

(* _calculate_confidence_score(validation_result, consensus_data) returned *)
Called(validation_score, consensus_data) ==
    [node |-> "called",
     validation_score |-> validation_score,
     consensus_data |-> consensus_data,
     confidence |-> _calculate_confidence_score(validation_score, consensus_data)]

(* the first call: no source answered *)
CalculateConfidence ==
    \E v \in ValidationInputs :
        /\ calc.node = "idle"
        /\ calc' = Called(v, << >>)
        /\ UNCHANGED <<conv, judy, rec, alex>>
        /\ UNCHANGED approvalVars

(* the call again with one more source and the same validation score *)
AddSource ==
    \E w \in Weights :
        /\ calc.node = "called"
        /\ Len(calc.consensus_data) < MaxSources
        /\ calc' = Called(calc.validation_score,
                          Append(calc.consensus_data, [confidence |-> w]))
        /\ UNCHANGED <<conv, judy, rec, alex>>
        /\ UNCHANGED approvalVars

(* the call again with the same sources and a higher validation score *)
RaiseValidationScore ==
    \E v \in ValidationInputs :
        /\ calc.node = "called"
        /\ v > calc.validation_score
        /\ calc' = Called(v, calc.consensus_data)
        /\ UNCHANGED <<conv, judy, rec, alex>>
        /\ UNCHANGED approvalVars

ConfNext ==
    \/ CalculateConfidence
    \/ AddSource
    \/ RaiseValidationScore

ConfSpec == Init /\ [][ConfNext]_vars

(* C18: for a validation score in [0, 1] and sources weighted in [0, 1] the
   confidence score lies in [0, 1], also without sources, where it is half
   the validation score; it does not decrease when the validation score is
   raised with the sources fixed, nor when a source is added with the
   validation score fixed. *)
ConfidenceBoundedMonotonic ==
    /\ [](calc.node = "called" =>
            /\ calc.confidence \in 0..ConfidenceOne
            /\ calc.consensus_data = << >> =>
                  calc.confidence = 150 * calc.validation_score)
    /\ [][(calc.node = "called" /\ calc'.node = "called") =>
            calc'.confidence >= calc.confidence]_vars

(* four sources of weight 1.0 and validation score 1.0: the blend is 1.1
   and the clamp returns 1.0 *)
ConfidenceWitness ==
    /\ calc.node = "called"
    /\ Len(calc.consensus_data) = 4
    /\ calc.validation_score = 100
    /\ SumConfidence(calc.consensus_data) = 400
    /\ calc.confidence = ConfidenceOne

----------------------------------------------------------------------------
(* _make_recommendation on its own.  The variable rec is the last call: its
   arguments and the recommendation returned. *)

(* confidence scores 0.0, 0.3, just under 0.4, 0.4, 0.6, just under 0.8,
   0.8, 0.9, 0.95 and 1.0, in units of 1/30000 *)
ConfidenceInputs ==
    {0, 9000, 11999, 12000, 18000, 23999, 24000, 27000, 28500, 30000}

(* the tiers of _assess_response_risk and the tier "critical" that
   _make_recommendation also knows *)
RiskAssessments == {"low", "medium", "high", "critical"}

(* the buckets of _assess_hallucination_risk and the "unknown" of
   _validate_against_consensus *)
HallucinationRisks == {"low", "medium", "high", "unknown"}

(* _make_recommendation(confidence_score, risk_level, validation_result)
   called and returned *)
MakeRecommendation ==
    \E confidence_score \in ConfidenceInputs, risk_level \in RiskAssessments,
       hallucination_risk \in HallucinationRisks :
        /\ rec' = [node |-> "called",
                   confidence_score |-> confidence_score,
                   risk_level |-> risk_level,
                   hallucination_risk |-> hallucination_risk,
                   recommendation |->
                       _make_recommendation(confidence_score, risk_level,
                           [hallucination_risk |-> hallucination_risk])]
        /\ UNCHANGED <<conv, judy, calc, alex>>
        /\ UNCHANGED approvalVars

RecNext == MakeRecommendation

RecSpec == Init /\ [][RecNext]_vars

(* C19: the recommendation is approve if and only if the confidence is at
   least 0.8 and the risk tier is low; for risk tier high or critical it is
   never approve.  Confidence 0.95 with risk critical and hallucination low
   gives review; confidence 0.6 with risk high gives review (hallucination
   risk not high); confidence 0.9 with risk low gives approve. *)
ApproveIffConfidentAndLowRisk ==
    rec.node = "called" =>
        /\ rec.recommendation \in {"approve", "reject", "review"}
        /\ rec.recommendation = "approve" <=>
              (rec.confidence_score >= ApproveThreshold /\ rec.risk_level = "low")
        /\ rec.risk_level \in {"high", "critical"} => rec.recommendation # "approve"
        /\ (/\ rec.confidence_score = 28500
            /\ rec.risk_level = "critical"
            /\ rec.hallucination_risk = "low") => rec.recommendation = "review"
        /\ (/\ rec.confidence_score = 18000
            /\ rec.risk_level = "high"
            /\ rec.hallucination_risk # "high") => rec.recommendation = "review"
        /\ (rec.confidence_score = 27000 /\ rec.risk_level = "low") =>
              rec.recommendation = "approve"

(* confidence 0.95 with a critical risk was sent to review *)
ApproveWitness ==
    /\ rec.node = "called"
    /\ rec.confidence_score = 28500
    /\ rec.risk_level = "critical"
    /\ rec.hallucination_risk = "low"
    /\ rec.recommendation = "review"

(* the condition of the rejection *)
LowOrHallucinated ==
    rec.confidence_score < RejectThreshold \/ rec.hallucination_risk = "high"

(* C20 as stated: the recommendation is reject if and only if the
   confidence is below 0.4 or the hallucination risk is high, for every
   risk tier, also when the confidence is at least 0.8 and the risk is
   low. *)
RejectIffLowOrHallucinated ==
    rec.node = "called" => (rec.recommendation = "reject" <=> LowOrHallucinated)

(* C20 amended: the recommendation is reject if and only if the confidence
   is below 0.4 or the hallucination risk is high, and the request is not
   one of confidence at least 0.8 and low risk, which is approved first
   whatever the hallucination risk.  So a request of confidence below 0.4 is
   rejected for every risk tier, high and critical included, and a request
   of high hallucination risk is rejected for every tier but the approved
   one. *)
RejectUnlessApprovedFirst ==
    rec.node = "called" =>
        LET approved == rec.confidence_score >= ApproveThreshold
                        /\ rec.risk_level = "low"
        IN  /\ rec.recommendation = "reject" <=> (LowOrHallucinated /\ ~approved)
            /\ rec.confidence_score < RejectThreshold =>
                  rec.recommendation = "reject"
            /\ (rec.hallucination_risk = "high" /\ approved) =>
                  rec.recommendation = "approve"

(* a request of confidence 0.3 and critical risk, without hallucination
   risk, was rejected *)
RejectWitness ==
    /\ rec.node = "called"
    /\ rec.confidence_score = 9000
    /\ rec.risk_level = "critical"
    /\ rec.hallucination_risk = "low"
    /\ rec.recommendation = "reject"

----------------------------------------------------------------------------
(* Command gate of agents/alex.py.  A command is the sequence of its
   characters, so that `cmd in command_lower` and `startswith` are what they
   are in the code.  The variable alex is the last call of
   _handle_command_request (what the extraction returned and the result)
   and the set of commands run by execute_approved_command. *)

MaxExecuted == 2

allowed_commands ==
    <<[category |-> "filesystem",
       commands |-> <<<<"m", "k", "d", "i", "r">>, <<"l", "s">>,
                      <<"d", "i", "r">>, <<"t", "r", "e", "e">>,
                      <<"f", "i", "n", "d">>,
                      <<"l", "o", "c", "a", "t", "e">>>>],
      [category |-> "system_info",
       commands |-> <<<<"s", "y", "s", "t", "e", "m", "i", "n", "f", "o">>,
                      <<"w", "h", "o", "a", "m", "i">>,
                      <<"h", "o", "s", "t", "n", "a", "m", "e">>,
                      <<"u", "p", "t", "i", "m", "e">>,
                      <<"u", "n", "a", "m", "e">>>>],
      [category |-> "process",
       commands |-> <<<<"t", "a", "s", "k", "l", "i", "s", "t">>,
                      <<"p", "s">>, <<"t", "o", "p">>, <<"h", "t", "o", "p">>>>],
      [category |-> "network",
       commands |-> <<<<"p", "i", "n", "g">>,
                      <<"n", "s", "l", "o", "o", "k", "u", "p">>,
                      <<"i", "p", "c", "o", "n", "f", "i", "g">>,
                      <<"i", "f", "c", "o", "n", "f", "i", "g">>,
                      <<"n", "e", "t", "s", "t", "a", "t">>>>],
      [category |-> "disk",
       commands |-> <<<<"d", "f">>, <<"d", "u">>,
                      <<"d", "i", "s", "k", "u", "t", "i", "l">>,
                      <<"f", "s", "u", "t", "i", "l">>>>]>>

dangerous_commands ==
    <<[category |-> "destructive",
       commands |-> <<<<"r", "m">>, <<"d", "e", "l">>,
                      <<"r", "m", "d", "i", "r">>, <<"r", "d">>,
                      <<"f", "o", "r", "m", "a", "t">>,
                      <<"f", "d", "i", "s", "k">>, <<"m", "k", "f", "s">>>>],
      [category |-> "system_modify",
       commands |-> <<<<"r", "e", "g", "e", "d", "i", "t">>,
                      <<"r", "e", "g">>,
                      <<"s", "y", "s", "t", "e", "m", "c", "t", "l">>,
                      <<"s", "e", "r", "v", "i", "c", "e">>,
                      <<"c", "h", "k", "d", "s", "k">>>>],
      [category |-> "network_modify",
       commands |-> <<<<"i", "p", "t", "a", "b", "l", "e", "s">>,
                      <<"n", "e", "t", "s", "h">>,
                      <<"r", "o", "u", "t", "e">>>>],
      [category |-> "user_modify",
       commands |-> <<<<"u", "s", "e", "r", "a", "d", "d">>,
                      <<"u", "s", "e", "r", "d", "e", "l">>,
                      <<"p", "a", "s", "s", "w", "d">>,
                      <<"n", "e", "t", " ", "u", "s", "e", "r">>>>]>>

Commands ==
    {<<"r", "m", " ", "-", "r", "f", " ", "/", "t", "m", "p">>,
     <<"l", "s", " ", "-", "l", "a">>,
     <<"m", "k", "d", "i", "r", " ", "f", "o", "o">>,
     <<"p", "i", "n", "g", " ", "h", "o", "s", "t">>,
     <<"f", "i", "n", "d", " ", ".", " ", "-", "n", "a", "m", "e", " ", "x">>,
     <<"t", "a", "s", "k", "l", "i", "s", "t">>,
     <<"w", "h", "o", "a", "m", "i">>,
     <<"h", "o", "s", "t", "n", "a", "m", "e">>,
     <<"u", "p", "t", "i", "m", "e">>,
     <<"d", "i", "r">>,
     <<"d", "f", " ", "-", "h">>,
     <<"l", "s", " ", "|", " ", "r", "m", " ", "x">>,
     <<"e", "c", "h", "o", " ", "h", "i">>,
     <<"L", "S", " ", "-", "l", "a">>,
     <<"l", "s", " ", "n", "o", "r", "m">>,
     <<"l", "s", "o", "f", " ", "-", "i">>,
     <<"f", "o", "r", "m", "a", "t", " ", "c", ":">>,
     <<"f", "i", "n", "d", " ", "d", "i", "r">>}

(* str.lower() on the characters that occur *)
LowerChar(c) ==
    CASE c = "L" -> "l"
      [] c = "S" -> "s"
      [] OTHER -> c

Lower(s) == [k \in 1..Len(s) |-> LowerChar(s[k])]

(* command_lower.startswith(cmd) *)
StartsWith(s, cmd) == Len(cmd) <= Len(s) /\ SubSeq(s, 1, Len(cmd)) = cmd

(* cmd in command_lower *)
In(cmd, s) ==
    \E k \in 0..(Len(s) - Len(cmd)) : SubSeq(s, k + 1, k + Len(cmd)) = cmd

(* the verbs of all categories of one of the two tables *)
VerbsOf(table) ==
    UNION {{table[i].commands[j] : j \in 1..Len(table[i].commands)} :
           i \in 1..Len(table)}

(* the verbs of self.allowed_commands and of self.dangerous_commands *)
AllowedVerbs == VerbsOf(allowed_commands)

DangerousVerbs == VerbsOf(dangerous_commands)

(* what _extract_command_info returns: no command (also after a failure of
   the extraction, which returns {}), a command that is not a string, or
   a command string, possibly empty *)
CommandInfos ==
    {[kind |-> "none", command |-> << >>], [kind |-> "list", command |-> << >>],
     [kind |-> "str", command |-> << >>]}
    \cup [kind : {"str"}, command : Commands]

_classify_command(command) ==
    LET command_lower == Lower(command)
        hits == {i \in 1..Len(allowed_commands) :
                    \E j \in 1..Len(allowed_commands[i].commands) :
                        In(allowed_commands[i].commands[j], command_lower)}
    IN  IF hits = {} THEN "unknown"
        ELSE allowed_commands[CHOOSE i \in hits : \A h \in hits : i <= h].category

_is_dangerous_command(command) ==
    \E cmd \in DangerousVerbs : In(cmd, Lower(command))

_is_allowed_command(command) ==
    \E cmd \in AllowedVerbs : StartsWith(Lower(command), cmd)

LowRiskVerbs ==
    {<<"l", "s">>, <<"d", "i", "r">>, <<"w", "h", "o", "a", "m", "i">>,
     <<"h", "o", "s", "t", "n", "a", "m", "e">>, <<"u", "p", "t", "i", "m", "e">>}

MediumRiskVerbs ==
    {<<"m", "k", "d", "i", "r">>, <<"p", "i", "n", "g">>,
     <<"f", "i", "n", "d">>, <<"t", "a", "s", "k", "l", "i", "s", "t">>}

(* the "level" of _assess_command_risk *)
_assess_command_risk(command) ==
    LET command_lower == Lower(command)
    IN  IF \E cmd \in LowRiskVerbs : In(cmd, command_lower) THEN "low"
        ELSE IF \E cmd \in MediumRiskVerbs : In(cmd, command_lower) THEN "medium"
        ELSE "medium"

NoApprovalRequest == [present |-> FALSE]

(* the result of a branch that asks for no approval *)
Refusal(outcome) ==
    [outcome |-> outcome, requires_approval |-> FALSE,
     approval_request |-> NoApprovalRequest]

(* the result of the last branch *)
ApprovalAsked(command) ==
    [outcome |-> "approval",
     requires_approval |-> TRUE,
     approval_request |->
         [present |-> TRUE,
          action_type |-> "execute_command",
          command |-> command,
          command_type |-> _classify_command(command),
          risk_level |-> _assess_command_risk(command)]]

(* faulty variant: the allow list looked at before the deny list *)
HandleCommandRequestAllowFirst(command_info) ==
    IF command_info.kind = "none" \/ command_info.command = << >>
    THEN IF command_info.kind = "list" THEN Refusal("error")
         ELSE Refusal("needs_clarification")
    ELSE IF _is_allowed_command(command_info.command)
    THEN ApprovalAsked(command_info.command)
    ELSE IF _is_dangerous_command(command_info.command)
    THEN Refusal("command_rejected")
    ELSE Refusal("command_not_allowed")

(* _handle_command_request after _extract_command_info: a command that is
   not a string raises in _classify_command and ends in handle_error *)
_handle_command_request(command_info) ==
    IF command_info.kind = "list" THEN Refusal("error")
    ELSE IF command_info.kind = "none" \/ command_info.command = << >>
    THEN Refusal("needs_clarification")
    ELSE IF _is_dangerous_command(command_info.command)
    THEN Refusal("command_rejected")
    ELSE IF ~_is_allowed_command(command_info.command)
    THEN Refusal("command_not_allowed")
    ELSE ApprovalAsked(command_info.command)

(* _handle_command_request called and returned *)
HandleCommandRequest ==
    \E command_info \in CommandInfos :
        /\ alex' = [node |-> "returned",
                    executed |-> alex.executed,
                    command_info |-> command_info,
                    result |-> _handle_command_request(command_info)]
        /\ UNCHANGED <<conv, judy, calc, rec>>
        /\ UNCHANGED approvalVars

(* execute_approved_command with the command of the approval request the
   gate returned *)
ExecuteApprovedCommand ==
    /\ alex.node = "returned"
    /\ alex.result.requires_approval
    /\ Cardinality(alex.executed) < MaxExecuted
    /\ alex' = [alex EXCEPT !.executed = @ \cup {alex.result.approval_request.command}]
    /\ UNCHANGED <<conv, judy, calc, rec>>
    /\ UNCHANGED approvalVars

AlexNext ==
    \/ HandleCommandRequest
    \/ ExecuteApprovedCommand

AlexSpec == Init /\ [][AlexNext]_vars

(* the call returned on a command string *)
Gated == alex.node = "returned" /\ alex.command_info.kind = "str"
         /\ alex.command_info.command # << >>

(* the command starts with a verb of the allow list *)
StartsAllowed ==
    \E verb \in AllowedVerbs :
        StartsWith(Lower(alex.command_info.command), verb)

(* the command contains a verb of the deny list *)
ContainsDenied ==
    \E verb \in DangerousVerbs :
        In(verb, Lower(alex.command_info.command))

(* C21: the gate asks for approval (requires_approval true, with an approval
   request for that command) if and only if the command starts with a verb
   of the allow list and contains no verb of the deny list, letter case
   apart; a command containing a verb of the deny list is rejected without
   approval request also when it starts with an allowed verb; a command
   matching neither list is refused as not permitted; without a command
   nothing is asked; and a step in which the gate returns (the first call,
   or a call with another command or result) runs no command. *)
GateAsksIffAllowedAndNotDenied ==
    /\ [](alex.node = "returned" =>
            /\ alex.result.requires_approval <=>
                  (Gated /\ StartsAllowed /\ ~ContainsDenied)
            /\ alex.result.requires_approval <=> alex.result.approval_request.present
            /\ alex.result.requires_approval =>
                  alex.result.approval_request.command = alex.command_info.command
            /\ (Gated /\ ContainsDenied) => alex.result.outcome = "command_rejected"
            /\ (Gated /\ ~ContainsDenied /\ ~StartsAllowed) =>
                  alex.result.outcome = "command_not_allowed")
    /\ [][(\/ alex.node = "idle"
            \/ alex'.command_info # alex.command_info
            \/ alex'.result # alex.result) =>
              alex'.executed = alex.executed]_vars

(* "ls | rm x" starts with an allowed verb, contains a denied one and was
   rejected *)
GateWitness ==
    /\ Gated
    /\ alex.command_info.command = <<"l", "s", " ", "|", " ", "r", "m", " ", "x">>
    /\ StartsAllowed
    /\ ContainsDenied
    /\ alex.result.outcome = "command_rejected"
    /\ ~alex.result.requires_approval

(* the verb of a command: its first word, in lower case *)
Verb(command) ==
    LET blanks == {k \in 1..Len(command) : command[k] = " "}
        end == IF blanks = {} THEN Len(command)
               ELSE (CHOOSE k \in blanks : \A b \in blanks : k <= b) - 1
    IN  Lower(SubSeq(command, 1, end))

(* C22: "rm -rf /tmp" is rejected, "ls -la" is allowed with risk low,
   "mkdir foo" is allowed with risk medium; an allowed command whose verb is
   mkdir, ping, find or tasklist has risk medium, and only commands whose
   verb is ls, dir, whoami, hostname or uptime have risk low (the claim as
   stated). *)
CommandRiskByVerb ==
    Gated =>
        LET command == alex.command_info.command
            result == alex.result
        IN  /\ command = <<"r", "m", " ", "-", "r", "f", " ", "/", "t", "m", "p">> =>
                  result.outcome = "command_rejected"
            /\ command = <<"l", "s", " ", "-", "l", "a">> =>
                  /\ result.requires_approval
                  /\ result.approval_request.risk_level = "low"
            /\ command = <<"m", "k", "d", "i", "r", " ", "f", "o", "o">> =>
                  /\ result.requires_approval
                  /\ result.approval_request.risk_level = "medium"
            /\ result.requires_approval =>
                  /\ Verb(command) \in MediumRiskVerbs =>
                        result.approval_request.risk_level = "medium"
                  /\ result.approval_request.risk_level = "low" =>
                        Verb(command) \in LowRiskVerbs

----------------------------------------------------------------------------
(* More properties of the pipeline *)

(* the places of finalize_response in the nodes run so far *)
FinalizeVisits == {k \in 1..Len(conv.trace) : conv.trace[k] = "finalize_response"}

(* the node entered after the k-th one *)
NodeAfter(k) == IF k < Len(conv.trace) THEN conv.trace[k + 1] ELSE conv.node

(* C23: request_approval is followed by validate_with_judy and that by
   finalize_response, whether or not there was an approval request to store
   and whether or not the validation failed; a run of the graph enters
   finalize_response at most once and nothing after it, and a run the graph
   completes has entered it exactly once, as its last node; the step
   request_approval changes only the pending approval (and the error) in
   the context, and writes no approval row. *)
ApprovalThenValidationThenFinalize ==
    /\ []((conv.node # "idle" /\ conv.graph) =>
            /\ \A k \in 1..Len(conv.trace) :
                  /\ conv.trace[k] = "request_approval" =>
                        /\ NodeAfter(k) = "validate_with_judy"
                        /\ k < Len(conv.trace) =>
                              NodeAfter(k + 1) = "finalize_response"
                  /\ conv.trace[k] = "finalize_response" => k = Len(conv.trace)
            /\ Cardinality(FinalizeVisits) <= 1
            /\ conv.node = "finalize_response" => FinalizeVisits = {}
            /\ (conv.node \in {"END", "returned"} /\ ~conv.fault) =>
                  FinalizeVisits = {Len(conv.trace)})
    /\ [][conv.node = "request_approval" =>
            /\ db' = db
            /\ conv'.node = "validate_with_judy"
            /\ \E pending_approval \in {"None", "pending"},
                  error \in {conv.state.context.error, "Approval request failed"} :
                  conv'.state = [conv.state EXCEPT
                                    !.context.pending_approval = pending_approval,
                                    !.context.error = error]]_vars

(* a run went through request_approval without an approval request to
   store, its validation raised, and it ended after finalize_response *)
ApprovalPathWitness ==
    /\ conv.node = "returned"
    /\ conv.graph
    /\ conv.trace = <<"detect_intent", "route_to_agent", "process_with_agent",
                      "request_approval", "validate_with_judy",
                      "finalize_response">>
    /\ conv.state.approval_request = "None"
    /\ conv.state.context.pending_approval = "None"
    /\ conv.state.context.validation_error # "None"
    /\ db = [i \in Ids |-> NoRow]

(* C24: in every state after process_with_agent the approval request is
   present if and only if the approval flag is true, whatever the
   responder returned (the claim as stated). *)
SnapshotIffFlag ==
    (conv.node # "idle" /\ conv.graph /\ Len(conv.trace) >= 3) =>
        (conv.state.approval_request # "None" <=> conv.state.requires_approval)

(* the responder the routing is to bind for the labels of the model *)
RoutedResponder(intent) ==
    CASE intent = "general" -> "carol"
      [] intent = "system_command" -> "alex"
      [] intent \in {"validation_request", "consensus_building"} -> "judy"
      [] intent \in {"small_talk", "None"} -> "carol"

(* C25: route_to_agent leaves a pinned responder as it is whatever the
   intent; without a pinned responder it binds the responder of the intent
   table, and carol for a label that is not in the table and for an absent
   intent; it changes nothing else; so a responder is bound whenever
   process_with_agent runs. *)
RouteBindsOneResponder ==
    /\ \A agent_id \in PinnedAgents, intent \in Intents \cup {"None"} :
          LET state == [ConversationState(agent_id, "s1") EXCEPT !.intent = intent]
              routed == _route_to_agent(state)
          IN  /\ routed = [state EXCEPT !.current_agent = routed.current_agent]
              /\ routed.current_agent =
                    (IF agent_id # "None" THEN agent_id ELSE RoutedResponder(intent))
    /\ (conv.node # "idle" /\ conv.graph /\ Len(conv.trace) >= 2) =>
          /\ conv.state.current_agent # "None"
          /\ conv.state.current_agent =
                (IF conv.agent_id # "None" THEN conv.agent_id
                 ELSE RoutedResponder(conv.state.intent))

(* a call without pinned agent, with a label that is not in the table, is
   about to run process_with_agent with carol *)
RouteWitness ==
    /\ conv.node = "process_with_agent"
    /\ conv.agent_id = "None"
    /\ conv.state.intent = "small_talk"
    /\ conv.state.current_agent = "carol"

(* the validation of the run failed: validate_response raised, or failed
   inside and returned the result of its `except` *)
ValidationFailed ==
    \/ conv.state.context.validation_error # "None"
    \/ (conv.state.context.validation.present
        /\ conv.state.context.validation.failed)

(* C26: when the validation fails entirely the run still goes through
   finalize_response and returns the responder's answer, and the final
   context holds both a validation result with score 0.5 and a
   validation_error note (the claim as stated). *)
DegradedValidationIsRecorded ==
    (conv.node = "returned" /\ conv.graph /\ ~conv.fault /\ ValidationFailed) =>
        /\ conv.trace[Len(conv.trace)] = "finalize_response"
        /\ conv.response.metadata.validation.present
        /\ conv.response.metadata.validation.confidence_score = 50
        /\ conv.response.metadata.validation_error # "None"

----------------------------------------------------------------------------
(* More properties of the consensus engine *)

(* C27: the validation score of every result lies in [0, 1]: it is the
   number found in the comparison text when that is at most 1, a tenth of it
   when it is greater than 1, 0.6 when no pattern matches, and within
   [0, 1] for every number found, 85 and 100 included (the claim as
   stated). *)
ValidationScoreInUnitRange ==
    /\ judy.node \in {"assess", "returned"} =>
          judy.validation_result.validation_score \in 0..100
    /\ \A analysis \in ValidationAnalyses \ {[raises |-> TRUE]} :
          LET score == _extract_validation_score(analysis)
          IN  /\ score \in 0..100
              /\ ~analysis.matched => score = 60
              /\ (analysis.matched /\ analysis.score <= 100) => score = analysis.score
              /\ (analysis.matched /\ analysis.score > 100) =>
                    10 * score = analysis.score

----------------------------------------------------------------------------
(* The approvals table under get, decide, update and batch expiry alone:
   respond_to_approval is called as it stands, without its two endpoints,
   and update_approval with a description and a payload *)

RespondToApproval(reasons, execs) ==
    \E u \in Users, id \in Ids, approved \in BOOLEAN, reason \in reasons,
       ex \in execs :
        LET r == respond_to_approval(db, now, u, id, approved, reason, ex)
        IN  /\ db' = r.db
            /\ execCount' = Executed(execCount, id, r.exec)
            /\ UNCHANGED <<now, pc, loc>>
            /\ UNCHANGED agentVars

OwnerNext ==
    \/ Tick
    \/ CreateApprovalRequest({"low"}, {"review"})
    \/ GetApproval
    \/ RespondToApproval({"None"}, {"no_agent"})
    \/ UpdateApproval({"d1"}, {NoTime}, {"p1"})
    \/ ExpireOldApprovals

OwnerSpec == Init /\ [][OwnerNext]_vars

----------------------------------------------------------------------------
(* More properties of the approvals table *)

(* the rows of table d that user u does not own are as in the table now *)
OthersUntouched(d, u) == \A j \in Ids : ~Owned(j, u) => d[j] = db[j]

(* the table without row i *)
Without(i) == [db EXCEPT ![i] = NoRow]

(* C28: whatever one user asks for (get, approve, reject, update, batch
   expiry, with any id and any input), the rows owned by another user stay
   as they are and none of them is returned; a decision or an update aimed
   at the id of another user's request ends as for an id without request:
   NotFound, nothing written, nothing executed. *)
OwnerIsolation ==
    \A u \in Users :
        /\ \A hours \in SweepHours :
              OthersUntouched(expire_old_approvals(db, now, u, hours).db, u)
        /\ \A i \in Ids :
              LET foreign == db[i] # NoRow /\ ~Owned(i, u)
                  got == get_approval(db, u, i)
              IN  /\ foreign => (got.raised = "NotFound" /\ got.resp = NoRow)
                  /\ foreign => got = get_approval(Without(i), u, i)
                  /\ \A approved \in BOOLEAN, reason \in Reasons, ex \in ExecBehaviours :
                        LET r == respond_to_approval(db, now, u, i, approved, reason, ex)
                            e == IF approved
                                 THEN approve_request(db, now, u, i, reason, ex)
                                 ELSE reject_request(db, now, u, i, reason, ex)
                            absent == respond_to_approval(Without(i), now, u, i,
                                                          approved, reason, ex)
                        IN  /\ OthersUntouched(r.db, u)
                            /\ OthersUntouched(e.db, u)
                            /\ foreign =>
                                  /\ r.raised = "NotFound" /\ r.status_code = 404
                                  /\ r.resp = NoRow /\ r.exec = "none" /\ r.db = db
                                  /\ absent = [r EXCEPT !.db = Without(i)]
                                  /\ e.raised = "NotFound" /\ e.resp = NoRow
                                  /\ e.exec = "none" /\ e.db = db
                  /\ \A desc \in Descriptions, exp \in {NoTime} \cup ExpiryInputs,
                        pay \in Payloads :
                        LET r == update_approval(db, u, i, desc, exp, pay)
                            absent == update_approval(Without(i), u, i, desc, exp, pay)
                        IN  /\ OthersUntouched(r.db, u)
                            /\ foreign =>
                                  /\ r.raised = "NotFound" /\ r.status_code = 404
                                  /\ r.resp = NoRow /\ r.db = db
                                  /\ absent = [r EXCEPT !.db = Without(i)]

(* each of the two users owns a request; the first user's has been updated
   and approved, while the second user's, created at the same time and by
   now older than the sweep window, is still pending and as it was created *)
OwnerIsolationWitness ==
    \E i, j \in Ids :
        /\ Owned(i, "u1") /\ Owned(j, "u2")
        /\ db[i].description = "d1"
        /\ db[i].status = "approved"
        /\ db[j] = NewApproval("u2", "low", db[i].created_at)
        /\ now > db[j].created_at + DefaultSweepHours

(* C29: update_approval changes the description, the expiry time and the
   payload when they are supplied and nothing else: the status, the decision
   time, the decision reason, the risk tier, the owner and the assessment
   of the request stay as they are, whatever its status, and so does every
   other row. *)
UpdateChangesOnlySupplied ==
    \A u \in Users, i \in Ids, desc \in Descriptions,
       exp \in {NoTime} \cup ExpiryInputs, pay \in Payloads :
        Owned(i, u) =>
            LET r == update_approval(db, u, i, desc, exp, pay)
                old == db[i]
                new == r.db[i]
            IN  /\ r.raised = "none"
                /\ new = [old EXCEPT !.description = new.description,
                                     !.expires_at = new.expires_at,
                                     !.payload = new.payload]
                /\ new.description = (IF desc # "None" THEN desc ELSE old.description)
                /\ new.expires_at = (IF exp # NoTime THEN exp ELSE old.expires_at)
                /\ new.payload = (IF pay # "None" THEN pay ELSE old.payload)
                /\ \A j \in Ids \ {i} : r.db[j] = db[j]
                /\ r.resp = ApprovalResponseOf(i, new)

(* an expired request has been given another description and payload and
   is still expired, with its decision time and reason *)
UpdateWitness ==
    \E i \in Ids :
        /\ db[i] # NoRow
        /\ db[i].status = "expired"
        /\ db[i].description = "d1"
        /\ db[i].payload = "p1"
        /\ db[i].responded_at # NoTime
        /\ db[i].response_reason = "Auto-expired due to timeout"

(* C30: when no source answered, validate_response returns confidence
   0.25 (half of the validation score 0.5, no coverage, no reliability), no
   consensus source and the recommendation reject, for every response and
   responder and so for every risk tier; approve is recommended only when
   at least one source answered. *)
EmptyConsensusRejects ==
    judy.node = "returned" =>
        /\ judy.consensus_sources = << >> =>
              /\ judy.validation_result.validation_score = 50
              /\ 4 * judy.result.confidence_score = ConfidenceOne
              /\ judy.result.recommendation = "reject"
              /\ judy.result.consensus_sources = << >>
              /\ judy.result.risk_assessment =
                    _assess_response_risk(judy.response, judy.agent_id)
        /\ judy.result.recommendation = "approve" =>
              Len(judy.consensus_sources) >= 1

(* every configured source raised, the response was of low risk, and the
   recommendation is reject *)
EmptyConsensusWitness ==
    /\ judy.node = "returned"
    /\ judy.did = <<"failed", "failed", "failed">>
    /\ judy.consensus_sources = << >>
    /\ judy.result.risk_assessment = "low"
    /\ judy.result.recommendation = "reject"

====
